---- MODULE Spec2Model ----
(***************************************************************************)
(* Model of people_headcount_app.py: a Streamlit script that loads an      *)
(* employee roster from a CSV file (memoised by st.cache_data), selects    *)
(* the first N rows by compensation and shows cost statistics.            *)
(*                                                                         *)
(* Text is modelled as sequences of one-character strings, so that the     *)
(* numeric coercion (pd.to_numeric) and the currency formatting (_fmt)     *)
(* are computed character by character.                                    *)
(***************************************************************************)
EXTENDS Integers, Sequences, FiniteSets, TLC

VARIABLES
    file,              \* contents of the CSV file at CSV_PATH (environment)
    cache,             \* st.cache_data entry of load_roster(CSV_PATH)
    build,             \* order in which this build's argsort leaves equal keys
    target_headcount,  \* session value of the "Target headcount" slider
    priority_option,   \* session value of the radio
    accent_choice,     \* session value of the selectbox
    status,            \* outcome of the last render pass: "none", "ok", "error"
    rendered,          \* elements the last render pass put on the page
    roster_df,         \* roster_df of the last render pass
    selected,          \* selected of the last render pass
    total_cost,
    average_cost,
    median_cost,
    display_df,        \* the table shown (comp_usd formatted as currency)
    download,          \* payload of the download button (CSV lines)
    parsed,            \* the last call of load_roster ran its body (cache miss)
    pass_file,         \* the file as it was when the last pass ran
    edits,             \* number of changes made to the file so far
    memo               \* the first pass that got a roster: its inputs and outputs

vars == <<file, cache, build, target_headcount, priority_option, accent_choice,
          status, rendered, roster_df, selected, total_cost, average_cost,
          median_cost, display_df, download, parsed, pass_file, edits, memo>>

----------------------------------------------------------------------------
(* Bounds *)

MaxRows == 3
MaxLoadRows == 3
MaxEdits == 1

----------------------------------------------------------------------------
(* Integer helpers *)

Min(a, b) == IF a < b THEN a ELSE b

Abs(x) == IF x < 0 THEN -x ELSE x

\* int(x / y) of Python for y > 0: the quotient truncated toward zero.
TruncDiv(x, y) == IF x >= 0 THEN x \div y ELSE -((-x) \div y)

Reverse(s) == [i \in 1..Len(s) |-> s[Len(s) + 1 - i]]

----------------------------------------------------------------------------
(* pd.to_numeric(..., errors="coerce") on one string field *)

Digit == {"0", "1", "2", "3", "4", "5", "6", "7", "8", "9"}

DigitVal(c) ==
    CASE c = "0" -> 0 [] c = "1" -> 1 [] c = "2" -> 2 [] c = "3" -> 3
      [] c = "4" -> 4 [] c = "5" -> 5 [] c = "6" -> 6 [] c = "7" -> 7
      [] c = "8" -> 8 [] c = "9" -> 9

RECURSIVE CountDigits(_)
CountDigits(s) ==
    IF s = <<>> \/ Head(s) \notin Digit THEN 0 ELSE 1 + CountDigits(Tail(s))

RECURSIVE DigitsValue(_)
DigitsValue(s) ==
    IF s = <<>> THEN 0
    ELSE 10 * DigitsValue(SubSeq(s, 1, Len(s) - 1)) + DigitVal(s[Len(s)])

ToLower(c) ==
    CASE c = "I" -> "i" [] c = "N" -> "n" [] c = "F" -> "f" [] c = "A" -> "a"
      [] OTHER -> c

NaN == [kind |-> "nan", neg |-> FALSE, whole |-> 0, tenths |-> 0]

Inf(neg) == [kind |-> "inf", neg |-> neg, whole |-> 0, tenths |-> 0]

Num(neg, whole, tenths) ==
    [kind |-> "num", neg |-> neg, whole |-> whole, tenths |-> tenths]

\* The fraction after the point: digits only, and at least one digit in the
\* whole number.
ParseFrac(neg, int, frac) ==
    IF CountDigits(frac) = Len(frac) /\ Len(int) + Len(frac) >= 1
    THEN Num(neg, DigitsValue(int), IF frac # <<>> THEN DigitVal(frac[1]) ELSE 0)
    ELSE NaN

\* What follows the integer digits: nothing, or a point and a fraction.
ParseRest(neg, int, rest) ==
    IF rest = <<>> THEN (IF int # <<>> THEN Num(neg, DigitsValue(int), 0) ELSE NaN)
    ELSE IF Head(rest) = "." THEN ParseFrac(neg, int, Tail(rest))
    ELSE NaN

ParseUnsigned(neg, body) ==
    ParseRest(neg, SubSeq(body, 1, CountDigits(body)),
              SubSeq(body, CountDigits(body) + 1, Len(body)))

\* The decimal grammar of the parser: optional sign, digits, optional point
\* and digits, at least one digit, nothing left over.  whole is the integer
\* part and tenths the first fractional digit of the float parsed.
ParseDecimal(s) ==
    IF s # <<>> /\ Head(s) \in {"+", "-"}
    THEN ParseUnsigned(Head(s) = "-", Tail(s))
    ELSE ParseUnsigned(FALSE, s)

\* A field that is no decimal is still a float when it spells an infinity
\* (case-insensitive); anything else is coerced to NaN.
OrSpecial(d, lo) ==
    IF d.kind = "num" THEN d
    ELSE IF lo \in {<<"i", "n", "f">>, <<"+", "i", "n", "f">>,
                     <<"i", "n", "f", "i", "n", "i", "t", "y">>} THEN Inf(FALSE)
    ELSE IF lo = <<"-", "i", "n", "f">> THEN Inf(TRUE)
    ELSE NaN

ToNumeric(s) == OrSpecial(ParseDecimal(s), [i \in 1..Len(s) |-> ToLower(s[i])])

\* .astype(int) on one finite float: truncation toward zero.
AsTypeInt(v) == IF v.neg THEN -v.whole ELSE v.whole

\* Series.str.startswith("E", na=False)
StartsWithE(id) == id # <<>> /\ Head(id) = "E"

----------------------------------------------------------------------------
(* load_roster *)

Columns == {"employee_id", "name", "comp_usd"}

\* The frame of pd.read_csv with comp_usd coerced: every source row with its
\* index label (its 0-based position in the file).
Coerced(rows) ==
    [i \in 1..Len(rows) |->
        [index |-> i - 1, employee_id |-> rows[i].employee_id,
         name |-> rows[i].name, comp |-> ToNumeric(rows[i].comp_usd)]]

\* The filter matching the prefix in either case.
IsEmployeeRow_AnyCase(r) ==
    r.employee_id # <<>> /\ Head(r.employee_id) \in {"E", "e"}

IsEmployeeRow(r) == StartsWithE(r.employee_id)

NotNa(r) == r.comp.kind # "nan"

CastRow(r) ==
    [index |-> r.index, employee_id |-> r.employee_id, name |-> r.name,
     comp_usd |-> AsTypeInt(r.comp)]

Raised(msg) == [ok |-> FALSE, error |-> msg, df |-> <<>>]

\* df["comp_usd"].astype(int) on the rows kept: it raises when a value is
\* not finite.
Cast(kept) ==
    IF \E i \in 1..Len(kept) : kept[i].comp.kind = "inf"
    THEN Raised("Cannot convert non-finite values (NA or inf) to integer")
    ELSE [ok |-> TRUE, error |-> "", df |-> [i \in 1..Len(kept) |-> CastRow(kept[i])]]

\* The body of load_roster: the frame it returns, or the exception it raises.
load_roster(f) ==
    IF ~f.readable THEN Raised("read_csv: cannot read file")
    ELSE IF "comp_usd" \notin f.columns
    THEN Raised("Expected column 'comp_usd' in roster CSV")
    ELSE IF "employee_id" \notin f.columns THEN Raised("KeyError: 'employee_id'")
    ELSE Cast(SelectSeq(SelectSeq(Coerced(f.rows), IsEmployeeRow), NotNa))

NoCache == [valid |-> FALSE, df |-> <<>>]

\* @st.cache_data: the entry is keyed by the argument (the constant
\* CSV_PATH) alone; a stored value is returned without running the body, and
\* a call that raises stores nothing.
CachedCall(c, f) ==
    IF c.valid THEN [hit |-> TRUE, res |-> [ok |-> TRUE, error |-> "", df |-> c.df]]
    ELSE [hit |-> FALSE, res |-> load_roster(f)]

CacheAfter(c, call) ==
    IF call.hit \/ ~call.res.ok THEN c ELSE [valid |-> TRUE, df |-> call.res.df]

----------------------------------------------------------------------------
(* sort_values("comp_usd", ascending).head(N) *)

\* argsort(kind="quicksort") of this build: positions of keys in
\* non-decreasing key order; the sort is not stable, equal keys come out in
\* the order of rank, which is fixed for the build.
ArgSort(keys, rank) ==
    LET n == Len(keys)
        Before(x, y) == keys[x] < keys[y] \/ (keys[x] = keys[y] /\ rank[x] < rank[y])
    IN  [i \in 1..n |->
            CHOOSE x \in 1..n : Cardinality({y \in 1..n : Before(y, x)}) = i - 1]

\* Positions in a reversed sequence, as positions in the sequence.
Unreversed(srt) == [i \in 1..Len(srt) |-> Len(srt) + 1 - srt[i]]

\* pandas nargsort: a descending sort reverses the keys, sorts them
\* ascending and reverses the result.
NArgSort(keys, ascending, rank) ==
    IF ascending THEN ArgSort(keys, rank)
    ELSE Reverse(Unreversed(ArgSort(Reverse(keys), rank)))

CompOf(df) == [i \in 1..Len(df) |-> df[i].comp_usd]

Take(df, ind) == [i \in 1..Len(ind) |-> df[ind[i]]]

SortValues(df, ascending, rank) == Take(df, NArgSort(CompOf(df), ascending, rank))

\* head taking one row more than asked.
HeadN_OneMore(df, n) == SubSeq(df, 1, Min(n + 1, Len(df)))

HeadN(df, n) == SubSeq(df, 1, Min(n, Len(df)))

LowestFirst == "Lowest compensation first (cost-minimizing)"

HighestFirst == "Highest compensation first"

PriorityOptions == {LowestFirst, HighestFirst}

\* The direction ignored: always lowest first.
Ascending_Always(option) == TRUE

\* priority_option.startswith("Lowest")
Ascending(option) == option = LowestFirst

Selected(df, n, option, rank) == HeadN(SortValues(df, Ascending(option), rank), n)

----------------------------------------------------------------------------
(* sum, mean and median of the selection *)

RECURSIVE SumSeq(_)
SumSeq(s) == IF s = <<>> THEN 0 ELSE Head(s) + SumSeq(Tail(s))

\* The values in non-decreasing order, as Series.median orders them.
SortInts(s) ==
    [i \in 1..Len(s) |->
        CHOOSE v \in {s[k] : k \in 1..Len(s)} :
            /\ Cardinality({k \in 1..Len(s) : s[k] < v}) < i
            /\ Cardinality({k \in 1..Len(s) : s[k] <= v}) >= i]

TotalCost(sel) == IF sel = <<>> THEN 0 ELSE SumSeq(CompOf(sel))

\* The mean floored (integer division) instead of truncated.
AverageCost_Floor(sel) ==
    IF sel = <<>> THEN 0 ELSE SumSeq(CompOf(sel)) \div Len(sel)

AverageCost(sel) == IF sel = <<>> THEN 0 ELSE TruncDiv(SumSeq(CompOf(sel)), Len(sel))

\* The upper middle value of an even count, not the mean of the two.
MedianOf_UpperMiddle(v) ==
    IF Len(v) % 2 = 1 THEN v[(Len(v) + 1) \div 2] ELSE v[Len(v) \div 2 + 1]

\* The middle of the ordered values v, as int(Series.median()).
MedianOf(v) ==
    IF Len(v) % 2 = 1 THEN v[(Len(v) + 1) \div 2]
    ELSE TruncDiv(v[Len(v) \div 2] + v[Len(v) \div 2 + 1], 2)

MedianCost(sel) == IF sel = <<>> THEN 0 ELSE MedianOf(SortInts(CompOf(sel)))

----------------------------------------------------------------------------
(* _fmt and the text of numbers *)

DigitChar(d) ==
    CASE d = 0 -> "0" [] d = 1 -> "1" [] d = 2 -> "2" [] d = 3 -> "3"
      [] d = 4 -> "4" [] d = 5 -> "5" [] d = 6 -> "6" [] d = 7 -> "7"
      [] d = 8 -> "8" [] d = 9 -> "9"

RECURSIVE NatChars(_)
NatChars(n) ==
    IF n < 10 THEN <<DigitChar(n)>> ELSE NatChars(n \div 10) \o <<DigitChar(n % 10)>>

\* str(x) of an integer
IntChars(x) == IF x < 0 THEN <<"-">> \o NatChars(-x) ELSE NatChars(x)

RECURSIVE Grouped(_)
Grouped(s) ==
    IF Len(s) <= 3 THEN s
    ELSE Grouped(SubSeq(s, 1, Len(s) - 3)) \o <<",">> \o SubSeq(s, Len(s) - 2, Len(s))

\* f"${x:,.0f}"
Fmt(x) ==
    <<"$">> \o (IF x < 0 THEN <<"-">> ELSE <<>>) \o Grouped(NatChars(Abs(x)))

\* selected[display_cols].copy().reset_index(drop=True) with comp_usd mapped
\* through _fmt
DisplayDf(sel) ==
    [i \in 1..Len(sel) |->
        [employee_id |-> sel[i].employee_id, name |-> sel[i].name,
         comp_usd |-> Fmt(sel[i].comp_usd)]]

\* selected[display_cols].to_csv(index=False): the header line, then one
\* line of fields per selected row
ToCsv(sel) ==
    <<[employee_id |-> <<"employee_id">>, name |-> <<"name">>,
       comp_usd |-> <<"comp_usd">>]>> \o
    [i \in 1..Len(sel) |->
        [employee_id |-> sel[i].employee_id, name |-> sel[i].name,
         comp_usd |-> IntChars(sel[i].comp_usd)]]

----------------------------------------------------------------------------
(* One run of the script *)

DefaultHeadcount == 10

AccentChoices == {"Teal", "Indigo", "Purple"}

\* accent_map.get(accent_choice, "#0d9488")
AccentColor(choice) ==
    CASE choice = "Teal" -> "#0d9488" [] choice = "Indigo" -> "#3730a3"
      [] choice = "Purple" -> "#7c3aed" [] OTHER -> "#0d9488"

El(kind, text, value, color) ==
    [kind |-> kind, text |-> text, value |-> value, color |-> color]

\* What is on the page before load_roster is called.
Preamble ==
    <<El("markdown", "style", <<>>, ""), El("markdown", "app-title", <<>>, ""),
      El("markdown", "app-sub", <<>>, "")>>

Sidebar ==
    <<El("sidebar.header", "Scenario inputs", <<>>, ""),
      El("sidebar.slider", "Target headcount", <<>>, ""),
      El("sidebar.radio", "Prioritize by compensation", <<>>, ""),
      El("sidebar.selectbox", "Accent color", <<>>, "")>>

KpiCards(sel, total, tc, ac, mc, color) ==
    <<El("kpi", "Selected headcount",
         NatChars(Len(sel)) \o <<"/">> \o NatChars(total), color),
      El("kpi", "Total compensation", Fmt(tc), "#111827"),
      El("kpi", "Average compensation",
         IF Len(sel) # 0 THEN Fmt(ac) ELSE <<"$", "0">>, "#111827"),
      El("kpi", "Median compensation",
         IF Len(sel) # 0 THEN Fmt(mc) ELSE <<"$", "0">>, "#111827")>>

TableSection(sel) ==
    <<El("markdown", "### Selected employees", <<>>, "")>> \o
    (IF sel = <<>>
     THEN <<El("info", "No employees selected for the current headcount.", <<>>, "")>>
     ELSE <<El("markdown", "data-table", <<>>, ""), El("table", "display_df", <<>>, ""),
            El("markdown", "/div", <<>>, ""),
            El("download_button", "Download selected as CSV", <<>>, "")>>)

ChartSection(sel, color) ==
    <<El("markdown", "### Compensation breakdown", <<>>, "")>> \o
    (IF sel # <<>> THEN <<El("altair_chart", "chart", <<>>, color)>> ELSE <<>>)

Footer(total) ==
    <<El("markdown", "---", <<>>, ""), El("caption", "Roster source", NatChars(total), "")>>

\* The first pass that got a roster, kept to compare later passes with: its
\* roster and inputs, and the selection, statistics and export it produced.
Snapshot(df, n, option, sel, tc, ac, mc) ==
    [valid |-> TRUE, roster |-> df, n |-> n, option |-> option, selected |-> sel,
     total |-> tc, average |-> ac, median |-> mc,
     download |-> IF sel = <<>> THEN <<>> ELSE ToCsv(sel)]

NoMemo ==
    [valid |-> FALSE, roster |-> <<>>, n |-> 0, option |-> LowestFirst,
     selected |-> <<>>, total |-> 0, average |-> 0, median |-> 0, download |-> <<>>]

\* The slider returns the session's value while its range is the one it was
\* created with, and its default min(10, total_employees) otherwise.
SliderValue(moved, n, total) ==
    IF moved /\ status = "ok" /\ Len(roster_df) = total /\ n <= total THEN n
    ELSE Min(DefaultHeadcount, total)

\* Lines 84-127 of the script: the cards, the table and the export, the
\* chart and the caption, from the selection and its statistics.
Show(df, head, option, accent, sel, tc, ac, mc) ==
    /\ status' = "ok"
    /\ roster_df' = df
    /\ target_headcount' = head
    /\ priority_option' = option
    /\ accent_choice' = accent
    /\ selected' = sel
    /\ total_cost' = tc
    /\ average_cost' = ac
    /\ median_cost' = mc
    /\ display_df' = DisplayDf(sel)
    /\ download' = IF sel = <<>> THEN <<>> ELSE ToCsv(sel)
    /\ rendered' = Preamble \o Sidebar
                    \o KpiCards(sel, Len(df), tc, ac, mc, AccentColor(accent))
                    \o TableSection(sel) \o ChartSection(sel, AccentColor(accent))
                    \o Footer(Len(df))
    /\ memo' = IF memo.valid THEN memo ELSE Snapshot(df, head, option, sel, tc, ac, mc)

\* Lines 77-79: the statistics of the selection.
Summarize(df, head, option, accent, sel) ==
    Show(df, head, option, accent, sel, TotalCost(sel), AverageCost(sel), MedianCost(sel))

\* The selection taken from the rows the previous pass selected.
Select_FromPrevious(df, head, option, accent) ==
    Summarize(df, head, option, accent,
              Selected(IF status = "ok" THEN selected ELSE df, head, option, build))

\* Lines 52-75: the widgets' values and the selection.
Select(df, head, option, accent) ==
    Summarize(df, head, option, accent, Selected(df, head, option, build))

\* st.error(...) without st.stop(): the script goes on to the sidebar.
Halt_NoStop(error) ==
    /\ status' = "error"
    /\ rendered' = Preamble \o <<El("error", error, <<>>, "")>> \o Sidebar
    /\ roster_df' = <<>>
    /\ selected' = <<>>
    /\ total_cost' = 0
    /\ average_cost' = 0
    /\ median_cost' = 0
    /\ display_df' = <<>>
    /\ download' = <<>>
    /\ target_headcount' = 0
    /\ priority_option' = LowestFirst
    /\ accent_choice' = "Teal"
    /\ memo' = memo

\* Lines 48-50: st.error(...) and st.stop().
Halt(error) ==
    /\ status' = "error"
    /\ rendered' = Preamble \o <<El("error", error, <<>>, "")>>
    /\ roster_df' = <<>>
    /\ selected' = <<>>
    /\ total_cost' = 0
    /\ average_cost' = 0
    /\ median_cost' = 0
    /\ display_df' = <<>>
    /\ download' = <<>>
    /\ target_headcount' = 0
    /\ priority_option' = LowestFirst
    /\ accent_choice' = "Teal"
    /\ memo' = memo

Run(call, moved, n, option, accent) ==
    /\ cache' = CacheAfter(cache, call)
    /\ parsed' = ~call.hit
    /\ pass_file' = file
    /\ IF call.res.ok
       THEN Select(call.res.df, SliderValue(moved, n, Len(call.res.df)), option, accent)
       ELSE Halt(call.res.error)

\* The script from top to bottom, with the widgets returning n (if the
\* slider was moved), option and accent.
Pass(moved, n, option, accent) == Run(CachedCall(cache, file), moved, n, option, accent)

----------------------------------------------------------------------------
(* Actions *)

\* A browser opens the app: the widgets have their defaults.
NewSession ==
    /\ Pass(FALSE, 0, LowestFirst, "Teal")
    /\ UNCHANGED <<file, build, edits>>

\* The user moves the slider, which reruns the script.
MoveSlider ==
    /\ status = "ok"
    /\ \E n \in 0..Len(roster_df) :
          /\ n # target_headcount
          /\ Pass(TRUE, n, priority_option, accent_choice)
    /\ UNCHANGED <<file, build, edits>>

ChooseRadio ==
    /\ status = "ok"
    /\ \E option \in PriorityOptions \ {priority_option} :
          Pass(TRUE, target_headcount, option, accent_choice)
    /\ UNCHANGED <<file, build, edits>>

ChooseAccent ==
    /\ status = "ok"
    /\ \E accent \in AccentChoices \ {accent_choice} :
          Pass(TRUE, target_headcount, priority_option, accent)
    /\ UNCHANGED <<file, build, edits>>

Row(id, name, comp) == [employee_id |-> id, name |-> name, comp_usd |-> comp]

\* Rows of the rosters the application is run on: two employees with the
\* same compensation and one with a negative compensation of four digits.
AppRows ==
    { Row(<<"E", "1">>, <<"A">>, <<"2">>),
      Row(<<"E", "2">>, <<"B">>, <<"2">>),
      Row(<<"E", "3">>, <<"C">>, <<"-", "3", "0", "0", "1">>) }

SeqsUpTo(S, n) == UNION {[1..k -> S] : k \in 0..n}

\* What an edit of the file can leave: the first row removed, a row
\* appended, the file deleted or restored, the compensation column renamed
\* or restored.
Edited(f) ==
    {[f EXCEPT !.rows = Tail(f.rows)] : i \in 1..Min(1, Len(f.rows))}
    \cup {[f EXCEPT !.rows = Append(f.rows, r)] :
            r \in IF Len(f.rows) < MaxRows THEN AppRows ELSE {}}
    \cup {[f EXCEPT !.readable = ~f.readable]}
    \cup {[f EXCEPT !.columns = IF "comp_usd" \in f.columns
                                THEN f.columns \ {"comp_usd"}
                                ELSE f.columns \cup {"comp_usd"}]}

\* The file changes on disk; no pass runs.
ChangeFile ==
    /\ edits < MaxEdits
    /\ \E f \in Edited(file) : file' = f
    /\ edits' = edits + 1
    /\ UNCHANGED <<cache, build, target_headcount, priority_option, accent_choice,
                   status, rendered, roster_df, selected, total_cost, average_cost,
                   median_cost, display_df, download, parsed, pass_file, memo>>

----------------------------------------------------------------------------
(* Specifications *)

Builds == {p \in [1..MaxRows -> 1..MaxRows] : \A i, j \in 1..MaxRows : p[i] = p[j] => i = j}

Intact(rows) == [readable |-> TRUE, columns |-> Columns, rows |-> rows]

AppFiles ==
    {Intact(rows) : rows \in SeqsUpTo(AppRows, MaxRows)}
    \cup {[readable |-> FALSE, columns |-> Columns, rows |-> <<>>],
          [readable |-> TRUE, columns |-> Columns \ {"comp_usd"}, rows |-> <<>>],
          [readable |-> TRUE, columns |-> Columns \ {"employee_id"}, rows |-> <<>>]}

\* The server has started and no browser has connected yet.
Fresh ==
    /\ cache = NoCache
    /\ target_headcount = 0
    /\ priority_option = LowestFirst
    /\ accent_choice = "Teal"
    /\ status = "none"
    /\ rendered = <<>>
    /\ roster_df = <<>>
    /\ selected = <<>>
    /\ total_cost = 0
    /\ average_cost = 0
    /\ median_cost = 0
    /\ display_df = <<>>
    /\ download = <<>>
    /\ parsed = FALSE
    /\ edits = 0
    /\ memo = NoMemo

Init ==
    /\ file \in AppFiles
    /\ pass_file = file
    /\ build \in Builds
    /\ Fresh

\* The application serving sessions from a source file that stays as it is.
Next ==
    \/ NewSession
    \/ MoveSlider
    \/ ChooseRadio
    \/ ChooseAccent

Spec == Init /\ [][Next]_vars

\* The application while the source file is edited on disk.
NextEnv ==
    \/ NewSession
    \/ MoveSlider
    \/ ChooseRadio
    \/ ChooseAccent
    \/ ChangeFile

SpecEnv == Init /\ [][NextEnv]_vars

\* load_roster on its own: the first pass of a fresh server, over source
\* files whose fields cover the cases of the coercion and of the filter.
LoadIds == {<<"E", "1">>, <<"T", "O", "T", "A", "L">>, <<"e", "7">>}

LoadComps ==
    { <<"1", "0", "0">>, <<"2", ".", "9">>, <<"-", "2", ".", "5">>,
      <<"a", "b", "c">>, <<>>, <<"i", "n", "f">> }

LoadRows == {Row(id, <<"N">>, comp) : id \in LoadIds, comp \in LoadComps}

LoadFiles ==
    {Intact(rows) : rows \in SeqsUpTo(LoadRows, MaxLoadRows)}
    \cup {[readable |-> FALSE, columns |-> Columns, rows |-> <<>>],
          [readable |-> TRUE, columns |-> Columns \ {"comp_usd"}, rows |-> <<>>],
          [readable |-> TRUE, columns |-> Columns \ {"employee_id"}, rows |-> <<>>]}

InitLoad ==
    /\ file \in LoadFiles
    /\ pass_file = file
    /\ build = [i \in 1..MaxLoadRows |-> i]
    /\ Fresh

NextLoad == NewSession

SpecLoad == InitLoad /\ [][NextLoad]_vars

----------------------------------------------------------------------------
(* Properties *)

IndexSet(df) == {df[i].index : i \in 1..Len(df)}

Unselected == {k \in 1..Len(roster_df) : roster_df[k].index \notin IndexSet(selected)}

\* The fields of LoadComps and AppRows that are decimal numerals, with the
\* integer each one truncates to.
Numerals ==
    { <<"1", "0", "0">>, <<"2", ".", "9">>, <<"-", "2", ".", "5">>, <<"2">>,
      <<"-", "3", "0", "0", "1">> }

Truncated(text) ==
    CASE text = <<"1", "0", "0">> -> 100
      [] text = <<"2", ".", "9">> -> 2
      [] text = <<"-", "2", ".", "5">> -> -2
      [] text = <<"2">> -> 2
      [] text = <<"-", "3", "0", "0", "1">> -> -3001

HasPrefixE(id) == Len(id) >= 1 /\ id[1] = "E"

\* C1: rows of the selection with equal comp_usd are in roster order, and
\* when the limit N cuts a group of equal rows the ones kept are the earliest
\* in roster order.
StableSelection ==
    status = "ok" =>
        /\ \A i, j \in 1..Len(selected) :
              (i < j /\ selected[i].comp_usd = selected[j].comp_usd)
                  => selected[i].index < selected[j].index
        /\ \A i \in 1..Len(selected) : \A k \in Unselected :
              roster_df[k].comp_usd = selected[i].comp_usd
                  => selected[i].index < roster_df[k].index

\* C2 as stated: every record of the roster has a non-negative comp_usd and
\* an employee_id that starts with "E".
RosterNonNegative ==
    status = "ok" =>
        \A i \in 1..Len(roster_df) :
            roster_df[i].comp_usd >= 0 /\ HasPrefixE(roster_df[i].employee_id)

\* C2 amended: every record of the roster has an integer comp_usd, of either
\* sign, and an employee_id that starts with "E", and is a source row whose
\* compensation field is a numeral: no row without the prefix or with a
\* non-numeric compensation is retained.
RosterClean ==
    status = "ok" =>
        \A i \in 1..Len(roster_df) :
            /\ roster_df[i].comp_usd \in Int
            /\ HasPrefixE(roster_df[i].employee_id)
            /\ roster_df[i].index + 1 \in 1..Len(pass_file.rows)
            /\ pass_file.rows[roster_df[i].index + 1].employee_id
                  = roster_df[i].employee_id
            /\ pass_file.rows[roster_df[i].index + 1].comp_usd \in Numerals

\* A roster that retains a negative compensation and has dropped a row.
RosterCleanWitness ==
    /\ status = "ok"
    /\ Len(roster_df) < Len(pass_file.rows)
    /\ \E i \in 1..Len(roster_df) : roster_df[i].comp_usd < 0

\* C3: the roster a pass computes its selection from is the cleaned contents
\* of the file as it is when the pass runs (the cached roster while the file
\* is unchanged, one recreated from the new contents once it has changed).
PassUsesCurrentFile ==
    (status = "ok" /\ load_roster(pass_file).ok) =>
        roster_df = load_roster(pass_file).df

\* The rows the roster is expected to hold: the source rows with the prefix
\* and a numeral, in source order, each with its truncated value.
Expected(rows) ==
    LET keep(i) == HasPrefixE(rows[i].employee_id) /\ rows[i].comp_usd \in Numerals
        pos     == SelectSeq([i \in 1..Len(rows) |-> i], keep)
    IN  [k \in 1..Len(pos) |->
            [index |-> pos[k] - 1, employee_id |-> rows[pos[k]].employee_id,
             name |-> rows[pos[k]].name, comp_usd |-> Truncated(rows[pos[k]].comp_usd)]]

WellFormed(f) == f.readable /\ f.columns = Columns

\* C4: from a readable file with its columns load_roster raises nothing and
\* returns exactly the rows with the prefix and a numeric compensation, in
\* source order, each truncated to an integer.
LoadExact ==
    (status # "none" /\ WellFormed(pass_file)) =>
        /\ status = "ok"
        /\ roster_df = Expected(pass_file.rows)

\* C4 where it holds: the same, for files in which no employee row has an
\* infinite compensation.
LoadExactFinite ==
    (/\ status # "none"
     /\ WellFormed(pass_file)
     /\ \A i \in 1..Len(pass_file.rows) :
           HasPrefixE(pass_file.rows[i].employee_id)
               => pass_file.rows[i].comp_usd # <<"i", "n", "f">>) =>
        /\ status = "ok"
        /\ roster_df = Expected(pass_file.rows)

Widgets ==
    {"sidebar.header", "sidebar.slider", "sidebar.radio", "sidebar.selectbox", "kpi",
     "table", "download_button", "altair_chart", "info", "caption"}

\* C5: a pass in which load_roster fails shows one error message and
\* nothing of the sidebar, the cards, the table, the download or the chart,
\* and computes no selection and no summary.
HaltsOnLoadError ==
    /\ (status # "none" /\ parsed /\ ~load_roster(pass_file).ok) => status = "error"
    /\ status = "error" =>
          /\ Cardinality({i \in 1..Len(rendered) : rendered[i].kind = "error"}) = 1
          /\ rendered[Len(rendered)].kind = "error"
          /\ \A i \in 1..Len(rendered) : rendered[i].kind \notin Widgets
          /\ selected = <<>> /\ display_df = <<>> /\ download = <<>>
          /\ total_cost = 0 /\ average_cost = 0 /\ median_cost = 0

\* A pass that failed because the compensation column is missing.
HaltsOnLoadErrorWitness ==
    /\ status = "error"
    /\ parsed
    /\ pass_file.readable
    /\ "comp_usd" \notin pass_file.columns

\* C6: the selection has min(N, len(roster)) rows, for the slider's N and
\* for every N >= 0 and both directions; N = 0 gives an empty selection of a
\* pass that did not fail.
SelectionSize ==
    status = "ok" =>
        /\ Len(selected) = Min(target_headcount, Len(roster_df))
        /\ \A n \in 0..(MaxRows + 1) : \A option \in PriorityOptions :
              Len(Selected(roster_df, n, option, build)) = Min(n, Len(roster_df))
        /\ target_headcount = 0 => selected = <<>>

\* N = 0 on a roster that has rows.
SelectionSizeWitness ==
    /\ status = "ok"
    /\ target_headcount = 0
    /\ Len(roster_df) >= 2
    /\ selected = <<>>

\* C7: the selection consists of distinct roster rows, in non-decreasing
\* comp_usd order when ascending and non-increasing order when not, and no
\* row left out is strictly better than a row selected.
SelectionOrdered ==
    status = "ok" =>
        /\ \A i \in 1..Len(selected) : \E k \in 1..Len(roster_df) : roster_df[k] = selected[i]
        /\ Cardinality(IndexSet(selected)) = Len(selected)
        /\ \A i, j \in 1..Len(selected) :
              i < j => IF priority_option = LowestFirst
                       THEN selected[i].comp_usd <= selected[j].comp_usd
                       ELSE selected[i].comp_usd >= selected[j].comp_usd
        /\ \A i \in 1..Len(selected) : \A k \in Unselected :
              IF priority_option = LowestFirst
              THEN roster_df[k].comp_usd >= selected[i].comp_usd
              ELSE roster_df[k].comp_usd <= selected[i].comp_usd

\* Highest first, two rows of different compensation taken out of three.
SelectionOrderedWitness ==
    /\ status = "ok"
    /\ priority_option = HighestFirst
    /\ Len(roster_df) = 3
    /\ Len(selected) = 2
    /\ selected[1].comp_usd > selected[2].comp_usd

RECURSIVE SumFromRight(_)
SumFromRight(s) ==
    IF Len(s) = 0 THEN 0 ELSE SumFromRight(SubSeq(s, 1, Len(s) - 1)) + s[Len(s)]

\* q is t / c truncated toward zero
IsTruncatedQuotient(q, t, c) ==
    /\ Abs(q) * c <= Abs(t)
    /\ Abs(t) < (Abs(q) + 1) * c
    /\ q > 0 => t > 0
    /\ q < 0 => t < 0

\* C8: the total is the sum of comp_usd over the selected rows and the
\* average is total / count truncated toward zero; both are 0 for an empty
\* selection.
SummaryTotals ==
    status = "ok" =>
        /\ total_cost = SumFromRight([i \in 1..Len(selected) |-> selected[i].comp_usd])
        /\ selected # <<>> => IsTruncatedQuotient(average_cost, total_cost, Len(selected))
        /\ selected = <<>> => (total_cost = 0 /\ average_cost = 0)

\* A negative total that the count does not divide.
SummaryTotalsWitness ==
    /\ status = "ok"
    /\ Len(selected) >= 2
    /\ total_cost < 0
    /\ total_cost % Len(selected) # 0

\* The k-th smallest of the selected compensations.
Smallest(k) ==
    CHOOSE v \in {selected[i].comp_usd : i \in 1..Len(selected)} :
        /\ Cardinality({i \in 1..Len(selected) : selected[i].comp_usd < v}) <= k - 1
        /\ Cardinality({i \in 1..Len(selected) : selected[i].comp_usd > v})
              <= Len(selected) - k

\* C9: the median is the middle compensation of an odd selection, the mean
\* of the two middle ones truncated toward zero of an even selection, and 0
\* of an empty selection.
SummaryMedian ==
    status = "ok" =>
        /\ selected = <<>> => median_cost = 0
        /\ Len(selected) % 2 = 1 => median_cost = Smallest((Len(selected) + 1) \div 2)
        /\ (selected # <<>> /\ Len(selected) % 2 = 0) =>
              IsTruncatedQuotient(median_cost,
                  Smallest(Len(selected) \div 2) + Smallest(Len(selected) \div 2 + 1), 2)

\* Two rows whose compensations have an odd negative sum.
SummaryMedianWitness ==
    /\ status = "ok"
    /\ Len(selected) = 2
    /\ selected[1].comp_usd + selected[2].comp_usd < 0
    /\ 2 * median_cost # selected[1].comp_usd + selected[2].comp_usd

DecimalText(text) == \A i \in 1..Len(text) : text[i] \in Digit \cup {"-"}

\* C10: a pass with the roster, N and direction of the first pass has its
\* selection, summary and export, whatever the accent and the passes in
\* between; the roster stays the one first loaded; the export holds the
\* compensations as plain integers while the table shows them as currency.
SameInputsSameOutputs ==
    /\ (/\ status = "ok"
        /\ memo.valid
        /\ memo.roster = roster_df
        /\ memo.n = target_headcount
        /\ memo.option = priority_option) =>
          /\ selected = memo.selected
          /\ total_cost = memo.total
          /\ average_cost = memo.average
          /\ median_cost = memo.median
          /\ download = memo.download
    /\ memo.valid => (cache.valid /\ cache.df = memo.roster)
    /\ status = "ok" => (cache.valid /\ cache.df = roster_df)
    /\ (status = "ok" /\ selected # <<>>) =>
          /\ Len(download) = Len(selected) + 1
          /\ Len(display_df) = Len(selected)
          /\ \A i \in 1..Len(selected) :
                /\ selected[i].comp_usd \in Int
                /\ DecimalText(download[i + 1].comp_usd)
                /\ AsTypeInt(ParseDecimal(download[i + 1].comp_usd)) = selected[i].comp_usd
                /\ display_df[i].comp_usd[1] = "$"

\* A later pass, served from the cache, with the first pass's inputs and
\* another accent.
SameInputsSameOutputsWitness ==
    /\ status = "ok"
    /\ memo.valid
    /\ memo.roster = roster_df
    /\ memo.n = target_headcount
    /\ memo.option = priority_option
    /\ accent_choice = "Purple"
    /\ Len(selected) = 3
    /\ ~parsed

====
